---- MODULE Spec2Model ----
(***************************************************************************)
(* Model of eth2/src/utils/mod.rs: fork identity resolution, subnet        *)
(* bitfield extraction, peer identifier derivation and gossip topic         *)
(* construction.  The functions of the module are pure; the state of the   *)
(* model is the last call made by a client (operation, argument, outcome)  *)
(* and the log of the peer identifiers derived so far.                     *)
(***************************************************************************)
EXTENDS Integers, Sequences, FiniteSets, TLC

VARIABLES op, arg, ret, peerLog

vars == <<op, arg, ret, peerLog>>

(***************************************************************************)
(* Bounds of the model.                                                    *)
(***************************************************************************)
\* longest fork_digest / next_fork_version vector handed to get_fork_id
MaxVecLen == 5
\* longest "eth2" / "attnets" field content of a record
MaxFieldLen == 17
\* number of byte patterns used to fill field contents
NumPatterns == 4
\* longest topic kind list of a network configuration
MaxKinds == 2

(***************************************************************************)
(* Values: Option, Result, panic.                                          *)
(***************************************************************************)
None == [tag |-> "None"]
Some(v) == [tag |-> "Some", val |-> v]
Ok(v) == [tag |-> "Ok", val |-> v]
Err(e) == [tag |-> "Err", err |-> e]
\* an index out of bounds or an unwrap/expect on None/Err: the call does not return
Panic == [tag |-> "Panic"]

\* the outcome of a call: the value returned, or Panic
Return(v) == [tag |-> "Return", val |-> v]
Outcome(r) == IF r = Panic THEN Panic ELSE Return(r)

IsSome(o) == o.tag = "Some"
IsOk(r) == r.tag = "Ok"

(***************************************************************************)
(* u64 as four 16-bit limbs, least significant first.                      *)
(***************************************************************************)
Limb == 256 * 256
U64Max == <<Limb - 1, Limb - 1, Limb - 1, Limb - 1>>
U64Zero == <<0, 0, 0, 0>>

\* u64::to_le_bytes
to_le_bytes(x) ==
    [i \in 1..8 |-> IF i % 2 = 1 THEN x[(i + 1) \div 2] % 256
                                 ELSE x[i \div 2] \div 256]

\* u64::from_le_bytes of an 8-byte sequence
from_le_bytes(b) == [k \in 1..4 |-> b[2 * k - 1] + 256 * b[2 * k]]

(***************************************************************************)
(* EnrForkId and its SSZ form (fixed length container).                    *)
(***************************************************************************)
EnrForkId(d, v, e) == [fork_digest |-> d, next_fork_version |-> v, next_fork_epoch |-> e]

ForkIdSszLen == 16

\* <EnrForkId as Encode>::as_ssz_bytes
as_ssz_bytes(f) == f.fork_digest \o f.next_fork_version \o to_le_bytes(f.next_fork_epoch)

\* <EnrForkId as Decode>::from_ssz_bytes
from_ssz_bytes(bytes) ==
    IF Len(bytes) # ForkIdSszLen
    THEN Err("InvalidByteLength")
    ELSE Ok(EnrForkId(SubSeq(bytes, 1, 4), SubSeq(bytes, 5, 8),
                      from_le_bytes(SubSeq(bytes, 9, 16))))

(***************************************************************************)
(* get_default_fork_id                                                     *)
(***************************************************************************)
\* variant: the epoch is left at zero instead of u64::max_value()
get_default_fork_id_zero_epoch == EnrForkId(<<0, 0, 0, 0>>, <<0, 0, 0, 0>>, U64Zero)

get_default_fork_id == EnrForkId(<<0, 0, 0, 0>>, <<0, 0, 0, 0>>, U64Max)

(***************************************************************************)
(* get_fork_id: indexes [0]..[3] of both vectors; an index past the end of *)
(* a Vec panics.                                                           *)
(***************************************************************************)
\* variant: index 0 copied where index 1 belongs
get_fork_id_dup_index(fork_digest, next_fork_version, next_fork_epoch) ==
    IF Len(fork_digest) < 4 \/ Len(next_fork_version) < 4
    THEN Panic
    ELSE EnrForkId(<<fork_digest[1], fork_digest[1], fork_digest[3], fork_digest[4]>>,
                   <<next_fork_version[1], next_fork_version[2],
                     next_fork_version[3], next_fork_version[4]>>,
                   next_fork_epoch)

get_fork_id(fork_digest, next_fork_version, next_fork_epoch) ==
    IF Len(fork_digest) < 4 \/ Len(next_fork_version) < 4
    THEN Panic
    ELSE EnrForkId(<<fork_digest[1], fork_digest[2], fork_digest[3], fork_digest[4]>>,
                   <<next_fork_version[1], next_fork_version[2],
                     next_fork_version[3], next_fork_version[4]>>,
                   next_fork_epoch)

(***************************************************************************)
(* Discovery record: named binary fields.                                  *)
(***************************************************************************)
Enr(eth2, attnets) == [eth2 |-> eth2, attnets |-> attnets]

\* Enr::get
Enr_get(enr, key) == IF key = "eth2" THEN enr.eth2 ELSE enr.attnets

(***************************************************************************)
(* get_fork_id_from_enr                                                    *)
(***************************************************************************)
\* variant: a decode error falls back to the default fork identity
get_fork_id_from_enr_or_default(enr) ==
    LET f == Enr_get(enr, "eth2") IN
    IF IsSome(f)
    THEN LET r == from_ssz_bytes(f.val) IN
         IF IsOk(r) THEN Some(r.val) ELSE Some(get_default_fork_id)
    ELSE None

get_fork_id_from_enr(enr) ==
    LET f == Enr_get(enr, "eth2") IN
    IF IsSome(f)
    THEN LET r == from_ssz_bytes(f.val) IN
         IF IsOk(r) THEN Some(r.val) ELSE None
    ELSE None

(***************************************************************************)
(* BitVector<SubnetBitfieldLength> (EnrBitfield<MainnetEthSpec>) and its   *)
(* SSZ form: bit i is bit (i mod 8), least significant first, of byte      *)
(* (i div 8).                                                              *)
(***************************************************************************)
\* <MainnetEthSpec as EthSpec>::SubnetBitfieldLength
SubnetBitfieldLength == 64
\* ChainSpec::mainnet().attestation_subnet_count
attestation_subnet_count == 64

Pow2(k) == CASE k = 0 -> 1 [] k = 1 -> 2 [] k = 2 -> 4 [] k = 3 -> 8
             [] k = 4 -> 16 [] k = 5 -> 32 [] k = 6 -> 64 [] OTHER -> 128

\* ceil(bit_len / 8)
bytes_for_bit_len(bit_len) == (bit_len + 7) \div 8

BitOf(bytes, i) == (bytes[(i \div 8) + 1] \div Pow2(i % 8)) % 2 = 1

\* no bit at or above bit_len is set in the last byte
NoExcessBits(bytes, bit_len) ==
    \A i \in bit_len..(8 * Len(bytes) - 1) : ~BitOf(bytes, i)

\* BitVector::<N>::from_ssz_bytes
BitVector_from_ssz_bytes(bytes) ==
    IF Len(bytes) # bytes_for_bit_len(SubnetBitfieldLength)
    THEN Err("InvalidByteLength")
    ELSE IF ~NoExcessBits(bytes, SubnetBitfieldLength)
    THEN Err("ExcessBits")
    ELSE Ok([len |-> SubnetBitfieldLength, bytes |-> bytes])

\* BitVector::get: Err past the end of the bitfield
BitVector_get(bitfield, i) ==
    IF i < bitfield.len THEN Ok(BitOf(bitfield.bytes, i)) ELSE Err("OutOfBounds")

(***************************************************************************)
(* get_bitfield_from_enr                                                   *)
(***************************************************************************)
\* variant: a field longer than the bitfield is truncated before decoding
get_bitfield_from_enr_truncating(enr) ==
    LET bitfield_bytes == Enr_get(enr, "attnets") IN
    IF ~IsSome(bitfield_bytes)
    THEN Err("ENR bitfield non-existent")
    ELSE LET n == bytes_for_bit_len(SubnetBitfieldLength)
             b == bitfield_bytes.val
             r == BitVector_from_ssz_bytes(IF Len(b) > n THEN SubSeq(b, 1, n) ELSE b)
         IN  IF IsOk(r) THEN r ELSE Err("Could not decode the ENR SSZ bitfield")

get_bitfield_from_enr(enr) ==
    LET bitfield_bytes == Enr_get(enr, "attnets") IN
    IF ~IsSome(bitfield_bytes)
    THEN Err("ENR bitfield non-existent")
    ELSE LET r == BitVector_from_ssz_bytes(bitfield_bytes.val) IN
         IF IsOk(r) THEN r ELSE Err("Could not decode the ENR SSZ bitfield")

(***************************************************************************)
(* get_attnets_from_enr: the loop `for i in 0..=subnet_count`.             *)
(***************************************************************************)
\* the indices the loop visits, in the order it visits them
InclusiveRange(lo, hi) == [k \in 1..(hi - lo + 1) |-> lo + k - 1]

\* variant: the loop starts at 1
AttnetsLoop_from_one(bitfield, subnet_count) ==
    SelectSeq(InclusiveRange(1, subnet_count),
              LAMBDA i : LET b == BitVector_get(bitfield, i) IN IsOk(b) /\ b.val)

\* the loop body pushes i exactly when bitfield.get(i) is Ok(true)
AttnetsLoop(bitfield, subnet_count) ==
    SelectSeq(InclusiveRange(0, subnet_count),
              LAMBDA i : LET b == BitVector_get(bitfield, i) IN IsOk(b) /\ b.val)

\* variant: a record without a decodable bitfield counts as subscribed to every subnet
get_attnets_from_enr_all_on_error(enr) ==
    LET r == get_bitfield_from_enr(enr) IN
    IF IsOk(r)
    THEN AttnetsLoop(r.val, attestation_subnet_count)
    ELSE InclusiveRange(0, attestation_subnet_count - 1)

get_attnets_from_enr(enr) ==
    LET r == get_bitfield_from_enr(enr) IN
    IF IsOk(r) /\ r.val.len > 0
    THEN AttnetsLoop(r.val, attestation_subnet_count)
    ELSE <<>>

(***************************************************************************)
(* Textual record form and its parser (str::parse::<Enr<CombinedKey>>).    *)
(* A text is a scheme and a payload; the payload of a well-formed text     *)
(* carries the record.                                                     *)
(***************************************************************************)
EnrText(scheme, payload) == [scheme |-> scheme, payload |-> payload]

Enr_parse(text) ==
    IF text.scheme = "enr:" /\ text.payload.tag = "Some"
    THEN Ok(text.payload.val)
    ELSE Err("Invalid ENR")

get_enr_from_string(text) ==
    LET r == Enr_parse(text) IN
    IF IsOk(r) THEN Some(r.val) ELSE None

get_fork_id_from_string(text) ==
    LET r == Enr_parse(text) IN
    IF IsOk(r) THEN get_fork_id_from_enr(r.val) ELSE None

(***************************************************************************)
(* Testnet directory: get_fork_id_from_dir, load_testnet_config.           *)
(***************************************************************************)
\* ChainSpec::enr_fork_id: digest of (genesis_fork_version, root), no next fork
compute_fork_digest(version, root) ==
    <<(root + version[1]) % 256, (3 * root + 1) % 256, (5 * root + 2) % 256, (7 * root + 3) % 256>>

enr_fork_id(slot, genesis_validators_root) ==
    EnrForkId(compute_fork_digest(<<0, 0, 0, 0>>, genesis_validators_root),
              <<0, 0, 0, 0>>, U64Max)

\* Eth2TestnetConfig::load(testnet_dir).unwrap()
load_testnet_config(testnet_dir) ==
    IF IsOk(testnet_dir.load) THEN testnet_dir.load.val ELSE Panic

get_fork_id_from_dir(dir) ==
    IF IsSome(dir)
    THEN LET config == load_testnet_config(dir.val) IN
         IF config = Panic
         THEN Panic
         ELSE IF ~IsSome(config.genesis_state)
         THEN Panic
         ELSE LET state == config.genesis_state.val IN
              Some(enr_fork_id(state.slot, state.genesis_validators_root))
    ELSE None

(***************************************************************************)
(* Gossip topics.                                                          *)
(***************************************************************************)
HexDigit == <<"0", "1", "2", "3", "4", "5", "6", "7",
              "8", "9", "a", "b", "c", "d", "e", "f">>

HexByte(b) == HexDigit[(b \div 16) + 1] \o HexDigit[(b % 16) + 1]

\* hex::encode of four bytes
HexEncode4(d) == HexByte(d[1]) \o HexByte(d[2]) \o HexByte(d[3]) \o HexByte(d[4])

\* GossipEncoding::default()
GossipEncoding_default == "ssz_snappy"

\* GossipTopic::new(kind, encoding, fork_digest).into(): String
GossipTopic_into_string(kind, encoding, fork_digest) ==
    "/eth2/" \o HexEncode4(fork_digest) \o "/" \o kind \o "/" \o encoding

get_gossip_topic_id(kind, enr_fork_id_) ==
    GossipTopic_into_string(kind, GossipEncoding_default, enr_fork_id_.fork_digest)

\* variant: each topic id is inserted at the front of the list
RECURSIVE TopicLoop_prepend(_, _, _)
TopicLoop_prepend(topic_kinds, enr_fork_id_, topic_ids) ==
    IF topic_kinds = <<>>
    THEN topic_ids
    ELSE TopicLoop_prepend(Tail(topic_kinds), enr_fork_id_,
                           <<GossipTopic_into_string(Head(topic_kinds), GossipEncoding_default,
                                                     enr_fork_id_.fork_digest)>> \o topic_ids)

\* the loop over network_config.topics, pushing one topic id per kind
RECURSIVE TopicLoop(_, _, _)
TopicLoop(topic_kinds, enr_fork_id_, topic_ids) ==
    IF topic_kinds = <<>>
    THEN topic_ids
    ELSE TopicLoop(Tail(topic_kinds), enr_fork_id_,
                   Append(topic_ids,
                          GossipTopic_into_string(Head(topic_kinds), GossipEncoding_default,
                                                  enr_fork_id_.fork_digest)))

\* topic_kinds is NetworkConfig::default().topics
create_topic_ids(enr_fork_id_, topic_kinds) == TopicLoop(topic_kinds, enr_fork_id_, <<>>)

(***************************************************************************)
(* Peer identifier derivation.                                             *)
(***************************************************************************)
\* secp256k1 PublicKey::serialize_compressed: parity byte, then x
serialize_compressed(pk) == <<IF pk.odd THEN 3 ELSE 2>> \o pk.x

\* ed25519 PublicKey::to_bytes
to_bytes(pk) == pk.raw

\* libp2p_core::identity::secp256k1::PublicKey::decode
secp256k1_decode(bytes) ==
    IF Len(bytes) = 33 /\ bytes[1] \in {2, 3} THEN Ok(bytes) ELSE Err("DecodingError")

\* libp2p_core::identity::ed25519::PublicKey::decode
ed25519_decode(bytes) ==
    IF Len(bytes) = 32 THEN Ok(bytes) ELSE Err("DecodingError")

\* PeerId::from_public_key: identity multihash of the protobuf encoding
\* (key type, key data) of the key
PeerId_from_public_key(key_type, data) ==
    LET key_enc == <<8, IF key_type = "Secp256k1" THEN 2 ELSE 1, 18, Len(data)>> \o data
    IN  [multihash |-> <<0, Len(key_enc)>> \o key_enc]

\* variant: the Ed25519 arm wraps its key as PublicKey::Secp256k1
into_peer_id_one_wrapper(self) ==
    IF self.tag = "Secp256k1"
    THEN LET pk_bytes == serialize_compressed(self.pk)
             libp2p_pk == secp256k1_decode(pk_bytes)
         IN  IF IsOk(libp2p_pk)
             THEN PeerId_from_public_key("Secp256k1", libp2p_pk.val)
             ELSE Panic
    ELSE LET pk_bytes == to_bytes(self.pk)
             libp2p_pk == ed25519_decode(pk_bytes)
         IN  IF IsOk(libp2p_pk)
             THEN PeerId_from_public_key("Secp256k1", libp2p_pk.val)
             ELSE Panic

into_peer_id(self) ==
    IF self.tag = "Secp256k1"
    THEN LET pk_bytes == serialize_compressed(self.pk)
             libp2p_pk == secp256k1_decode(pk_bytes)
         IN  IF IsOk(libp2p_pk)
             THEN PeerId_from_public_key("Secp256k1", libp2p_pk.val)
             ELSE Panic
    ELSE LET pk_bytes == to_bytes(self.pk)
             libp2p_pk == ed25519_decode(pk_bytes)
         IN  IF IsOk(libp2p_pk)
             THEN PeerId_from_public_key("Ed25519", libp2p_pk.val)
             ELSE Panic

(***************************************************************************)
(* Inputs of the calls.                                                    *)
(***************************************************************************)
\* byte i (from 1) of pattern p
Fill(p, i) ==
    CASE p = 0 -> 0
      [] p = 1 -> IF i = 1 THEN 33 ELSE IF i = 8 THEN 128 ELSE 0
      [] p = 2 -> 255
      [] OTHER -> (37 * i + p) % 256

ByteSeq(n, p) == [i \in 1..n |-> Fill(p, i)]

ByteVecs == {ByteSeq(n, 3) : n \in 0..MaxVecLen} \cup {ByteSeq(4, 1)}

Epochs == {U64Zero, <<258, 772, 1286, Limb - 1>>, U64Max}

FieldInputs ==
    {None} \cup {Some(ByteSeq(n, p)) : n \in 0..MaxFieldLen, p \in 0..(NumPatterns - 1)}

\* records with one field, and records with both fields well sized
EnrInputs ==
    {Enr(e, None) : e \in FieldInputs} \cup {Enr(None, a) : a \in FieldInputs}
    \cup {Enr(Some(ByteSeq(16, p)), Some(ByteSeq(8, q))) :
              p \in 0..(NumPatterns - 1), q \in 0..(NumPatterns - 1)}

Kinds == {"beacon_block", "beacon_aggregate_and_proof", "voluntary_exit"}

KindLists == UNION {[1..n -> Kinds] : n \in 0..MaxKinds}

TopicForkIds ==
    {EnrForkId(d, <<0, 0, 0, 0>>, U64Max) : d \in {<<0, 0, 0, 0>>, <<170, 187, 204, 221>>}}
    \cup {EnrForkId(<<170, 187, 204, 221>>, <<1, 0, 0, 0>>, U64Zero)}

Secp256k1Key(x, odd) == [tag |-> "Secp256k1", pk |-> [x |-> x, odd |-> odd]]
Ed25519Key(raw) == [tag |-> "Ed25519", pk |-> [raw |-> raw]]

PublicKeys ==
    {Secp256k1Key(ByteSeq(32, 3), TRUE), Ed25519Key(ByteSeq(32, 3))}

GenesisStates ==
    {None} \cup {Some([slot |-> 0, genesis_validators_root |-> r]) : r \in {0, 1, 200}}

TestnetDirs ==
    {[load |-> Err("NotFound")]} \cup
    {[load |-> Ok([genesis_state |-> g])] : g \in GenesisStates}

DirInputs == {None} \cup {Some(d) : d \in TestnetDirs}

EnrTexts ==
    {EnrText("enr:", Some(Enr(Some(ByteSeq(n, 3)), None))) : n \in 15..MaxFieldLen}
    \cup {EnrText("enr:", Some(Enr(None, None))), EnrText("enr:", None),
          EnrText("bad:", Some(Enr(Some(ByteSeq(16, 3)), None)))}

(***************************************************************************)
(* The calls.                                                              *)
(***************************************************************************)
Init ==
    /\ op = "init"
    /\ arg = <<>>
    /\ ret = None
    /\ peerLog = {}

CallGetDefaultForkId ==
    /\ op' = "get_default_fork_id"
    /\ arg' = <<>>
    /\ ret' = Return(get_default_fork_id)
    /\ UNCHANGED peerLog

CallGetForkId ==
    \E d \in ByteVecs, v \in ByteVecs, e \in Epochs :
        /\ op' = "get_fork_id"
        /\ arg' = [fork_digest |-> d, next_fork_version |-> v, next_fork_epoch |-> e]
        /\ ret' = Outcome(get_fork_id(d, v, e))
        /\ UNCHANGED peerLog

\* the client encodes the fork identity it has just built
CallAsSszBytes ==
    /\ op = "get_fork_id"
    /\ ret.tag = "Return"
    /\ op' = "as_ssz_bytes"
    /\ arg' = [fork_id |-> ret.val, input |-> arg]
    /\ ret' = Return(as_ssz_bytes(ret.val))
    /\ UNCHANGED peerLog

\* the record is one of the inputs, or carries the bytes just encoded
CallGetForkIdFromEnr ==
    \/ \E enr \in EnrInputs :
        /\ op' = "get_fork_id_from_enr"
        /\ arg' = [enr |-> enr, origin |-> None]
        /\ ret' = Return(get_fork_id_from_enr(enr))
        /\ UNCHANGED peerLog
    \/ /\ op = "as_ssz_bytes"
       /\ op' = "get_fork_id_from_enr"
       /\ arg' = [enr |-> Enr(Some(ret.val), None), origin |-> Some(arg)]
       /\ ret' = Return(get_fork_id_from_enr(Enr(Some(ret.val), None)))
       /\ UNCHANGED peerLog

CallGetBitfieldFromEnr ==
    \E enr \in EnrInputs :
        /\ op' = "get_bitfield_from_enr"
        /\ arg' = [enr |-> enr]
        /\ ret' = Return(get_bitfield_from_enr(enr))
        /\ UNCHANGED peerLog

CallGetAttnetsFromEnr ==
    \E enr \in EnrInputs :
        /\ op' = "get_attnets_from_enr"
        /\ arg' = [enr |-> enr]
        /\ ret' = Return(get_attnets_from_enr(enr))
        /\ UNCHANGED peerLog

CallGetEnrFromString ==
    \E t \in EnrTexts :
        /\ op' = "get_enr_from_string"
        /\ arg' = [text |-> t]
        /\ ret' = Return(get_enr_from_string(t))
        /\ UNCHANGED peerLog

CallGetForkIdFromString ==
    \E t \in EnrTexts :
        /\ op' = "get_fork_id_from_string"
        /\ arg' = [text |-> t]
        /\ ret' = Return(get_fork_id_from_string(t))
        /\ UNCHANGED peerLog

CallGetForkIdFromDir ==
    \E d \in DirInputs :
        /\ op' = "get_fork_id_from_dir"
        /\ arg' = [dir |-> d]
        /\ ret' = Outcome(get_fork_id_from_dir(d))
        /\ UNCHANGED peerLog

CallCreateTopicIds ==
    \E f \in TopicForkIds, ks \in KindLists :
        /\ op' = "create_topic_ids"
        /\ arg' = [enr_fork_id |-> f, topics |-> ks]
        /\ ret' = Return(create_topic_ids(f, ks))
        /\ UNCHANGED peerLog

CallGetGossipTopicId ==
    \E f \in TopicForkIds, k \in Kinds :
        /\ op' = "get_gossip_topic_id"
        /\ arg' = [enr_fork_id |-> f, kind |-> k]
        /\ ret' = Return(get_gossip_topic_id(k, f))
        /\ UNCHANGED peerLog

CallIntoPeerId ==
    \E k \in PublicKeys :
        /\ op' = "into_peer_id"
        /\ arg' = [key |-> k]
        /\ ret' = Outcome(into_peer_id(k))
        /\ peerLog' = peerLog \cup {[key |-> k, outcome |-> Outcome(into_peer_id(k))]}

Next ==
    \/ CallGetDefaultForkId
    \/ CallGetForkId
    \/ CallAsSszBytes
    \/ CallGetForkIdFromEnr
    \/ CallGetBitfieldFromEnr
    \/ CallGetAttnetsFromEnr
    \/ CallGetEnrFromString
    \/ CallGetForkIdFromString
    \/ CallGetForkIdFromDir
    \/ CallCreateTopicIds
    \/ CallGetGossipTopicId
    \/ CallIntoPeerId

Spec == Init /\ [][Next]_vars

(***************************************************************************)
(* Properties.                                                             *)
(***************************************************************************)
Returned == ret.tag = "Return"

\* the call decoded a record whose "eth2" field holds the encoding of a fork
\* identity built by get_fork_id from 4-byte vectors
IsRoundTrip ==
    /\ op = "get_fork_id_from_enr"
    /\ arg.origin # None
    /\ Len(arg.origin.val.input.fork_digest) = 4
    /\ Len(arg.origin.val.input.next_fork_version) = 4

\* C1: a fork identity built from a 4-byte digest, a 4-byte version and an
\* epoch, encoded, stored as the "eth2" field and decoded by
\* get_fork_id_from_enr comes back as Some of the same three fields; the
\* encoding is 16 bytes, digest first, version next, epoch last.
C1_RoundTrip ==
    IsRoundTrip =>
        LET input == arg.origin.val.input
            bytes == arg.enr.eth2.val
        IN  /\ Len(bytes) = 16
            /\ SubSeq(bytes, 1, 4) = input.fork_digest
            /\ SubSeq(bytes, 5, 8) = input.next_fork_version
            /\ Returned
            /\ ret.val.tag = "Some"
            /\ ret.val.val.fork_digest = input.fork_digest
            /\ ret.val.val.next_fork_version = input.next_fork_version
            /\ ret.val.val.next_fork_epoch = input.next_fork_epoch

C1_Witness ==
    /\ IsRoundTrip
    /\ arg.origin.val.input.next_fork_epoch = <<65535, 65535, 65535, 65535>>
    /\ arg.origin.val.input.fork_digest # arg.origin.val.input.next_fork_version
    /\ ret.val.tag = "Some"

\* C2: get_fork_id_from_enr on a record with an "eth2" field returns Some
\* exactly when the field is 16 bytes long, and None (the decode having
\* failed) for every other length.
C2_ForkIdLength ==
    (op = "get_fork_id_from_enr" /\ arg.enr.eth2.tag = "Some") =>
        /\ Returned
        /\ (Len(arg.enr.eth2.val) = 16 => ret.val.tag = "Some")
        /\ (Len(arg.enr.eth2.val) # 16 =>
               /\ ret.val = None
               /\ from_ssz_bytes(arg.enr.eth2.val).tag = "Err")

C2_Witness ==
    /\ op = "get_fork_id_from_enr"
    /\ arg.enr.eth2.tag = "Some"
    /\ Len(arg.enr.eth2.val) = 17
    /\ ret.val = None

\* C3: get_bitfield_from_enr returns an error for a present "attnets" field
\* whose length is not ceil(subnet_count / 8), a different error for an
\* absent field, and a bit vector of subnet_count bits for a field of
\* exactly that length.
C3_BitfieldLength ==
    op = "get_bitfield_from_enr" =>
        LET f == arg.enr.attnets
            want == (attestation_subnet_count + 7) \div 8
            absent == Return(get_bitfield_from_enr(Enr(None, None)))
        IN  /\ Returned
            /\ absent.val.tag = "Err"
            /\ f.tag = "None" => ret = absent
            /\ (f.tag = "Some" /\ Len(f.val) # want) =>
                   (ret.val.tag = "Err" /\ ret # absent)
            /\ (f.tag = "Some" /\ Len(f.val) = want) =>
                   /\ ret.val.tag = "Ok"
                   /\ ret.val.val.len = attestation_subnet_count
                   /\ ret.val.val.bytes = f.val

C3_Witness ==
    /\ op = "get_bitfield_from_enr"
    /\ arg.enr.attnets.tag = "Some"
    /\ Len(arg.enr.attnets.val) = 9
    /\ ret.val.tag = "Err"

\* a correctly sized "attnets" field
IsSizedAttnets ==
    /\ op = "get_attnets_from_enr"
    /\ arg.enr.attnets.tag = "Some"
    /\ Len(arg.enr.attnets.val) = (attestation_subnet_count + 7) \div 8

\* C4: for a correctly sized bitfield get_attnets_from_enr returns exactly
\* the indices below subnet_count whose bit is set (bit i mod 8, least
\* significant first, of byte i div 8), each once, in strictly ascending
\* order; subnet_count itself is never returned.
C4_SubnetEnumeration ==
    IsSizedAttnets =>
        LET bytes == arg.enr.attnets.val
            set == {i \in 0..(attestation_subnet_count - 1) :
                       (bytes[(i \div 8) + 1] \div (2 ^ (i % 8))) % 2 = 1}
        IN  /\ Returned
            /\ \A k \in 1..(Len(ret.val) - 1) : ret.val[k] < ret.val[k + 1]
            /\ {ret.val[k] : k \in 1..Len(ret.val)} = set
            /\ \A k \in 1..Len(ret.val) : ret.val[k] # attestation_subnet_count

C4_Witness ==
    /\ IsSizedAttnets
    /\ ret.val = <<0, 5, 63>>

\* C5: get_attnets_from_enr always returns, and returns the empty list for a
\* record without "attnets", for an "attnets" field of the wrong length and
\* for a bitfield with no bit set.
C5_AbsenceTolerance ==
    op = "get_attnets_from_enr" =>
        LET f == arg.enr.attnets IN
        /\ Returned
        /\ (\/ f.tag = "None"
            \/ Len(f.val) # (attestation_subnet_count + 7) \div 8
            \/ \A k \in 1..Len(f.val) : f.val[k] = 0)
           => ret.val = <<>>

C5_Witness ==
    /\ op = "get_attnets_from_enr"
    /\ arg.enr.attnets.tag = "None"
    /\ arg.enr.eth2.tag = "Some"
    /\ ret.val = <<>>

CoreEntryPoints ==
    {"get_fork_id", "get_fork_id_from_enr", "get_fork_id_from_string",
     "get_enr_from_string", "get_bitfield_from_enr", "get_attnets_from_enr"}

\* C6: every call of a fork identity or subnet entry point returns; none
\* ends in a panic.
C6_NoPanic == op \in CoreEntryPoints => ret.tag # "Panic"

\* C7: create_topic_ids returns one string per kind of the list, in the
\* order of the list, string i being get_gossip_topic_id of kind i; the
\* result depends on the fork identity through fork_digest only.
C7_TopicList ==
    op = "create_topic_ids" =>
        LET f == arg.enr_fork_id
            ks == arg.topics
        IN  /\ Returned
            /\ Len(ret.val) = Len(ks)
            /\ \A i \in 1..Len(ks) : ret.val[i] = get_gossip_topic_id(ks[i], f)
            /\ ret.val = create_topic_ids(EnrForkId(f.fork_digest, <<9, 9, 9, 9>>, <<7, 7, 7, 7>>), ks)

C7_Witness ==
    /\ op = "create_topic_ids"
    /\ Len(arg.topics) = 2
    /\ arg.topics[1] # arg.topics[2]
    /\ Len(ret.val) = 2
    /\ ret.val[1] # ret.val[2]

\* C8: get_default_fork_id returns the all-zero digest, the all-zero next
\* version and the epoch u64::MAX, whatever calls came before.
C8_DefaultForkId ==
    op = "get_default_fork_id" =>
        ret = Return([fork_digest |-> <<0, 0, 0, 0>>,
                      next_fork_version |-> <<0, 0, 0, 0>>,
                      next_fork_epoch |-> <<65535, 65535, 65535, 65535>>])

C8_Witness ==
    /\ op = "get_default_fork_id"
    /\ Returned
    /\ Cardinality(peerLog) >= 2

\* the key type and the key data length carried by a peer identifier
KeyTypeOf(peer_id) == peer_id.multihash[4]
KeyDataLenOf(peer_id) == peer_id.multihash[6]

C10_DirAbsenceIsNone ==
    op = "get_fork_id_from_dir" =>
        /\ Returned
        /\ LET present == /\ arg.dir.tag = "Some"
                          /\ arg.dir.val.load.tag = "Ok"
                          /\ arg.dir.val.load.val.genesis_state.tag = "Some"
           IN  IF present
               THEN LET state == arg.dir.val.load.val.genesis_state.val
                    IN  ret.val = Some(enr_fork_id(state.slot, state.genesis_validators_root))
               ELSE ret.val = None
====
